---- MODULE Spec2Model ----
(***************************************************************************)
(* A model of scripts/process_frame_lightweight.py: the per-frame filter   *)
(* pipeline LightweightAIProcessor.apply_filters and its four stages.      *)
(*                                                                         *)
(* Frames are functions from <<row, column>> (0-based, as numpy indexes    *)
(* them) to cells.  In the control-flow specifications (Spec, SpecFace,    *)
(* SpecEffects) a cell is the sequence of the operations applied to the    *)
(* pixel that was decoded there: the OpenCV kernels (bilateralFilter,      *)
(* cvtColor, GaussianBlur of an image) are kept as uninterpreted           *)
(* operations, each recorded with the arguments the code passes.  The      *)
(* arithmetic the code does itself (brightness offset, mask compositing,   *)
(* the beach background) is modelled on channel values 0..255 in           *)
(* SpecBrightness, SpecComposite and SpecBackground.                       *)
(***************************************************************************)
EXTENDS Integers, Sequences, FiniteSets, TLC

VARIABLES
    entry,       \* the method the caller invoked
    pc,          \* position of the single thread of control
    filters,     \* the filters dictionary (immutable during a call)
    h, w,        \* frame.shape[:2]
    orig,        \* the caller's frame
    processed,   \* the frame object the stages hand on (mutated in place by the face stage)
    stageIn,     \* the frame the running stage received (a snapshot at its entry)
    log,         \* one record per stage that has run
    handled,     \* how many of results.detections the face loop has taken
    lastBox,     \* the detection the face loop handled last, in pixels
    lastRect,    \* x, y, width, height computed for it
    calls,       \* names of the enhancement operations invoked for it
    faceRaised,  \* the face stage's except clause has run
    num          \* the scalar state of the arithmetic specifications

vars == <<entry, pc, filters, h, w, orig, processed, stageIn, log, handled,
          lastBox, lastRect, calls, faceRaised, num>>

(***************************************************************************)
(* Bounds of the model.                                                    *)
(***************************************************************************)
MaxH == 3
MaxW == 2
MaxDet == 2
MaxBlur == 3
RelDen == 2

Max(a, b) == IF a >= b THEN a ELSE b
Min(a, b) == IF a <= b THEN a ELSE b

\* Python's int() on a float: truncation toward zero.  The float is n/d, d > 0.
IntTrunc(n, d) == IF n >= 0 THEN n \div d ELSE -((-n) \div d)

\* The index set of a numpy basic slice a[start:stop] on an axis of length n:
\* negative bounds count from the end, and both are clipped to the axis.
SliceStart(start, n) == IF start < 0 THEN Max(0, start + n) ELSE Min(start, n)

SliceRange(start, stop, n) == SliceStart(start, n) .. (SliceStart(stop, n) - 1)

Coords(hh, ww) == (0 .. hh - 1) \X (0 .. ww - 1)

\* A decoded frame: no operation applied to any pixel yet.
FreshFrame(hh, ww) == [p \in Coords(hh, ww) |-> <<>>]

Tag(op, k, i) == [op |-> op, k |-> k, i |-> i]

\* np.ndarray.shape[0] of a region stored with 0-based rows.
Rows(region) == Cardinality({p[1] : p \in DOMAIN region})

ApplyRows(region, rows, tag) ==
    [p \in DOMAIN region |-> IF p[1] \in rows THEN Append(region[p], tag) ELSE region[p]]

(***************************************************************************)
(* The region enhancers; intensity is the percentage pct, as pct / 100.0.  *)
(***************************************************************************)
smooth_skin_fast(face, pct) ==
    LET k0 == Max(5, pct \div 10)
        kernel_size == IF k0 % 2 = 0 THEN k0 + 1 ELSE k0
    IN  ApplyRows(face, 0 .. Rows(face) - 1, Tag("smooth", kernel_size, pct))

brighten_eyes_fast(face, pct) ==
    ApplyRows(face, SliceRange(0, Rows(face) \div 3, Rows(face)), Tag("eyes", 0, pct))

whiten_teeth_fast(face, pct) ==
    ApplyRows(face, SliceRange((2 * Rows(face)) \div 3, Rows(face), Rows(face)),
              Tag("teeth", pct \div 5, pct))

(***************************************************************************)
(* enhance_face_opencv, lines 149-155: the detection's relative box, given *)
(* as numerators over RelDen, becomes a rectangle in pixels.               *)
(***************************************************************************)
PixelBox(det, hh, ww) ==
    [bx |-> IntTrunc(det.xmin * ww, RelDen), by |-> IntTrunc(det.ymin * hh, RelDen),
     bw |-> IntTrunc(det.width * ww, RelDen), bh |-> IntTrunc(det.height * hh, RelDen)]

ClampOrigin(o) == Max(0, o)

\* The extent taken as detected, not cut to what is left of the axis.
ClampExtentUnclamped(n, o, e) == e

ClampExtent(n, o, e) == Min(n - o, e)

FaceRect(box, hh, ww) ==
    LET x == ClampOrigin(box.bx)
        y == ClampOrigin(box.by)
    IN  [x |-> x, y |-> y,
         width |-> ClampExtent(ww, x, box.bw), height |-> ClampExtent(hh, y, box.bh)]

\* frame[y:y+height, x:x+width]
RectCoords(rect, hh, ww) ==
    SliceRange(rect.y, rect.y + rect.height, hh) \X SliceRange(rect.x, rect.x + rect.width, ww)

\* frame[y:y+height, x:x+width].copy(), re-indexed from 0
ExtractRegion(frame, rect, hh, ww) ==
    LET rs == SliceRange(rect.y, rect.y + rect.height, hh)
        cs == SliceRange(rect.x, rect.x + rect.width, ww)
    IN  [p \in (0 .. Cardinality(rs) - 1) \X (0 .. Cardinality(cs) - 1) |->
            frame[<<SliceStart(rect.y, hh) + p[1], SliceStart(rect.x, ww) + p[2]>>]]

\* frame[y:y+height, x:x+width] = face_region
WriteRegion(frame, rect, region, hh, ww) ==
    [p \in DOMAIN frame |->
        IF p \in RectCoords(rect, hh, ww)
        THEN region[<<p[1] - SliceStart(rect.y, hh), p[2] - SliceStart(rect.x, ww)>>]
        ELSE frame[p]]

Intensity(f, key) == f[key]

\* The guard written with >= for >.
SmoothingOnOrZero(f) == Intensity(f, "skinSmoothing") >= 0

SmoothingOn(f) == Intensity(f, "skinSmoothing") > 0
EyesOn(f) == Intensity(f, "eyeBrightening") > 0
TeethOn(f) == Intensity(f, "teethWhitening") > 0

\* lines 159-174: the region after the enhancements the filters ask for
EnhancedRegion(region, f) ==
    LET r1 == IF SmoothingOn(f) THEN smooth_skin_fast(region, f.skinSmoothing) ELSE region
        r2 == IF EyesOn(f) THEN brighten_eyes_fast(r1, f.eyeBrightening) ELSE r1
    IN  IF TeethOn(f) THEN whiten_teeth_fast(r2, f.teethWhitening) ELSE r2

EnhancerCalls(f) ==
    (IF SmoothingOn(f) THEN <<"smooth_skin_fast">> ELSE <<>>)
    \o (IF EyesOn(f) THEN <<"brighten_eyes_fast">> ELSE <<>>)
    \o (IF TeethOn(f) THEN <<"whiten_teeth_fast">> ELSE <<>>)

Actionable(rect) == rect.width > 0 /\ rect.height > 0

(***************************************************************************)
(* The filters dictionary.  A key that is absent reads as the default that *)
(* filters.get(key, default) gives it.                                     *)
(***************************************************************************)
NoFilters ==
    [backgroundRemoval |-> FALSE, backgroundReplacement |-> "blur",
     faceEnhancement |-> FALSE, skinSmoothing |-> 0, eyeBrightening |-> 0,
     teethWhitening |-> 0, brightness |-> 0, contrast |-> 0, saturation |-> 0,
     vintage |-> FALSE, colorFilter |-> "none", blur |-> 0]

IntensitySet == {0, 50}

FaceFilters ==
    {[NoFilters EXCEPT !.faceEnhancement = TRUE, !.skinSmoothing = s,
                       !.eyeBrightening = e, !.teethWhitening = t] :
        s \in IntensitySet, e \in IntensitySet, t \in IntensitySet}

\* Relative bounding boxes a detector may report, as numerators over RelDen.
\* Per axis <<origin, extent>>: left of the frame (reaching across it, and
\* ending inside it), inside and fitting, inside and oversize, past the far
\* edge, empty, and of negative extent.
AxisCases ==
    {<<-1, RelDen + 1>>, <<-1, RelDen>>, <<0, 1>>, <<1, RelDen + 1>>, <<RelDen + 1, 1>>,
     <<1, 0>>, <<0, -1>>}

Detections ==
    {[xmin |-> a[1], width |-> a[2], ymin |-> b[1], height |-> b[2]] :
        a \in AxisCases, b \in AxisCases}

NoBox == [bx |-> 0, by |-> 0, bw |-> 0, bh |-> 0]
NoRect == [x |-> 0, y |-> 0, width |-> 0, height |-> 0]

\* The effects call placed before the colour call.
StageAfterSwapped(stage) ==
    CASE stage = "background" -> "face"
      [] stage = "face" -> "effects"
      [] stage = "effects" -> "color"
      [] stage = "color" -> "returned"

\* The statement order of apply_filters, lines 80-93.
StageAfter(stage) ==
    CASE stage = "background" -> "face"
      [] stage = "face" -> "color"
      [] stage = "color" -> "effects"
      [] stage = "effects" -> "returned"

AfterStage(stage) == IF entry = "apply_filters" THEN StageAfter(stage) ELSE "returned"

\* What a stage that has returned to apply_filters leaves behind.
Logged(stage, input, output, raised) ==
    Append(log, [stage |-> stage, input |-> input, output |-> output, raised |-> raised])

(***************************************************************************)
(* enhance_face_opencv, lines 141-183.                                     *)
(***************************************************************************)
\* line 144: face_detection.process(frame) returns
FaceDetect ==
    /\ pc = "face_detect"
    /\ pc' = "face_loop"
    /\ UNCHANGED <<entry, filters, h, w, orig, processed, stageIn, log, handled,
                   lastBox, lastRect, calls, faceRaised, num>>

\* line 144: face_detection.process(frame) raises; lines 178-181 swallow it
FaceDetectRaise ==
    /\ pc = "face_detect"
    /\ pc' = "face_ret"
    /\ faceRaised' = TRUE
    /\ UNCHANGED <<entry, filters, h, w, orig, processed, stageIn, log, handled,
                   lastBox, lastRect, calls, num>>

\* lines 147-177: one whole iteration of the loop over results.detections
FaceIterate(det) ==
    LET box == PixelBox(det, h, w)
        rect == FaceRect(box, h, w)
    IN  /\ pc = "face_loop"
        /\ handled < MaxDet
        /\ handled' = handled + 1
        /\ lastBox' = box
        /\ lastRect' = rect
        /\ IF Actionable(rect)
           THEN /\ calls' = EnhancerCalls(filters)
                /\ processed' = WriteRegion(processed, rect,
                       EnhancedRegion(ExtractRegion(processed, rect, h, w), filters), h, w)
           ELSE /\ calls' = <<>>
                /\ processed' = processed
        /\ UNCHANGED <<entry, pc, filters, h, w, orig, stageIn, log, faceRaised, num>>

\* lines 159-174: an enhancement raises on the copied region, before line 177
FaceIterateRaise(det) ==
    LET box == PixelBox(det, h, w)
        rect == FaceRect(box, h, w)
    IN  /\ pc = "face_loop"
        /\ handled < MaxDet
        /\ Actionable(rect)
        /\ \E n \in 1 .. Len(EnhancerCalls(filters)) :
               calls' = SubSeq(EnhancerCalls(filters), 1, n)
        /\ handled' = handled + 1
        /\ lastBox' = box
        /\ lastRect' = rect
        /\ pc' = "face_ret"
        /\ faceRaised' = TRUE
        /\ UNCHANGED <<entry, filters, h, w, orig, processed, stageIn, log, num>>

\* lines 152-155: int() raises on a box coordinate that is not a number
FaceBoxRaise ==
    /\ pc = "face_loop"
    /\ handled < MaxDet
    /\ handled' = handled + 1
    /\ lastBox' = NoBox
    /\ lastRect' = NoRect
    /\ calls' = <<>>
    /\ pc' = "face_ret"
    /\ faceRaised' = TRUE
    /\ UNCHANGED <<entry, filters, h, w, orig, processed, stageIn, log, num>>

\* lines 146-147: no detections, or no more of them
FaceLoopEnd ==
    /\ pc = "face_loop"
    /\ pc' = "face_ret"
    /\ UNCHANGED <<entry, filters, h, w, orig, processed, stageIn, log, handled,
                   lastBox, lastRect, calls, faceRaised, num>>

\* line 183: return frame, the object the stage was given
FaceReturn ==
    /\ pc = "face_ret"
    /\ log' = Logged("face", stageIn, processed, faceRaised)
    /\ pc' = AfterStage("face")
    /\ stageIn' = processed
    /\ UNCHANGED <<entry, filters, h, w, orig, processed, handled, lastBox, lastRect,
                   calls, faceRaised, num>>

(***************************************************************************)
(* remove_background_lightweight, lines 95-139.                            *)
(***************************************************************************)
\* cv2's BORDER_REFLECT_101 (the default border of GaussianBlur) on an axis of length n
Reflect101(i, n) ==
    IF n = 1 THEN 0
    ELSE LET m == i % (2 * (n - 1)) IN IF m < n THEN m ELSE 2 * (n - 1) - m

\* lines 102-105: mask_uint8 at a (border-reflected) position; mask is the set
\* of positions where segmentation_mask > 0.1
MaskTap(mask, r, c, hh, ww) ==
    IF <<Reflect101(r, hh), Reflect101(c, ww)>> \in mask THEN 255 ELSE 0

\* line 106: cv2.GaussianBlur(mask_uint8, (5, 5), 0); with sigma 0 the 5-tap
\* kernel is (1, 4, 6, 4, 1) / 16, applied along the rows and then the columns
MaskRowBlur(mask, r, c, hh, ww) ==
    MaskTap(mask, r, c - 2, hh, ww) + 4 * MaskTap(mask, r, c - 1, hh, ww)
    + 6 * MaskTap(mask, r, c, hh, ww) + 4 * MaskTap(mask, r, c + 1, hh, ww)
    + MaskTap(mask, r, c + 2, hh, ww)

MaskSmooth(mask, p, hh, ww) ==
    (MaskRowBlur(mask, p[1] - 2, p[2], hh, ww) + 4 * MaskRowBlur(mask, p[1] - 1, p[2], hh, ww)
     + 6 * MaskRowBlur(mask, p[1], p[2], hh, ww) + 4 * MaskRowBlur(mask, p[1] + 1, p[2], hh, ww)
     + MaskRowBlur(mask, p[1] + 2, p[2], hh, ww) + 128) \div 256

\* lines 112-133: the branch taken for a replacement type
BackgroundMode(replacement_type) ==
    IF replacement_type \in {"blur", "gradient", "beach"} THEN replacement_type ELSE "darken"

\* What selfie_segmentation.process gives: it raises, it has no mask, or a mask.
SegRaise == [kind |-> "raise", mask |-> {}]
SegNone == [kind |-> "none", mask |-> {}]
SegMask(m) == [kind |-> "mask", mask |-> m]

\* The stage on cells: a pixel whose smoothed weight is 255 / 255.0 = 1.0 is
\* frame * 1.0 + background * 0.0, the pixel itself; every other pixel is
\* composited with the background of the mode.
remove_background_lightweight(frame, res, replacement_type, hh, ww) ==
    IF res.kind # "mask" THEN frame
    ELSE [p \in DOMAIN frame |->
            LET k == MaskSmooth(res.mask, p, hh, ww)
            IN  IF k = 255 THEN frame[p]
                ELSE Append(frame[p], Tag(BackgroundMode(replacement_type), k, 0))]

(***************************************************************************)
(* adjust_colors_fast, lines 218-241, and apply_effects_fast, 243-291, on  *)
(* cells.                                                                  *)
(***************************************************************************)
AllCells(frame, tag) == [p \in DOMAIN frame |-> Append(frame[p], tag)]

adjust_colors_fast(frame, f) ==
    LET p1 == IF f.brightness # 0
              THEN AllCells(frame, Tag("brightness", f.brightness * 2, 0)) ELSE frame
        p2 == IF f.contrast # 0
              THEN AllCells(p1, Tag("contrast", 100 + f.contrast, 0)) ELSE p1
    IN  IF f.saturation # 0
        THEN AllCells(p2, Tag("saturation", 100 + f.saturation, 0)) ELSE p2

ColorFilters == {"warm", "cool", "bw", "sepia", "vibrant"}

\* The guard without its backgroundRemoval half.
BlurAppliesIgnoringRemoval(f) == f.blur > 0

\* line 284
BlurApplies(f) == f.blur > 0 /\ ~f.backgroundRemoval

\* lines 286-288
BlurKernelSize(blur_amount) ==
    LET kernel_size == Max(3, blur_amount * 2 + 1)
    IN  IF kernel_size % 2 = 0 THEN kernel_size + 1 ELSE kernel_size

apply_effects_fast(frame, f) ==
    LET p1 == IF f.vintage THEN AllCells(frame, Tag("vintage", 0, 0)) ELSE frame
        p2 == IF f.colorFilter \in ColorFilters
              THEN AllCells(p1, Tag(f.colorFilter, 0, 0)) ELSE p1
    IN  IF BlurApplies(f)
        THEN AllCells(p2, Tag("GaussianBlur", BlurKernelSize(f.blur), 0)) ELSE p2

\* The stage reaches a cv2 or numpy call that can raise (frame.copy() aside).
ColorCallsLibrary(f) == f.brightness # 0 \/ f.contrast # 0 \/ f.saturation # 0
EffectsCallsLibrary(f) == f.vintage \/ f.colorFilter \in ColorFilters \/ BlurApplies(f)

(***************************************************************************)
(* apply_filters, lines 76-93.                                             *)
(***************************************************************************)
\* line 77: processed = frame.copy()
ApplyFiltersBegin ==
    /\ pc = "call"
    /\ processed' = orig
    /\ stageIn' = orig
    /\ pc' = "background"
    /\ UNCHANGED <<entry, filters, h, w, orig, log, handled, lastBox, lastRect, calls,
                   faceRaised, num>>

\* line 80, the guard false
BackgroundSkip ==
    /\ pc = "background"
    /\ ~filters.backgroundRemoval
    /\ pc' = AfterStage("background")
    /\ UNCHANGED <<entry, filters, h, w, orig, processed, stageIn, log, handled, lastBox,
                   lastRect, calls, faceRaised, num>>

\* lines 80-81 and 95-139: the whole background stage, for one answer of the segmenter
BackgroundStage(res) ==
    /\ pc = "background"
    /\ filters.backgroundRemoval
    /\ processed' = remove_background_lightweight(processed, res,
                                                  filters.backgroundReplacement, h, w)
    /\ log' = Logged("background", processed, processed', res.kind = "raise")
    /\ stageIn' = processed'
    /\ pc' = AfterStage("background")
    /\ UNCHANGED <<entry, filters, h, w, orig, handled, lastBox, lastRect, calls,
                   faceRaised, num>>

\* line 84, the guard false
FaceSkip ==
    /\ pc = "face"
    /\ ~filters.faceEnhancement
    /\ pc' = AfterStage("face")
    /\ UNCHANGED <<entry, filters, h, w, orig, processed, stageIn, log, handled, lastBox,
                   lastRect, calls, faceRaised, num>>

\* lines 84-85: the call of enhance_face_opencv(processed, filters)
FaceEnter ==
    /\ pc = "face"
    /\ filters.faceEnhancement
    /\ pc' = "face_detect"
    /\ stageIn' = processed
    /\ UNCHANGED <<entry, filters, h, w, orig, processed, log, handled, lastBox, lastRect,
                   calls, faceRaised, num>>

\* line 88 and lines 218-241
ColorStage ==
    /\ pc = "color"
    /\ processed' = adjust_colors_fast(processed, filters)
    /\ log' = Logged("color", processed, processed', FALSE)
    /\ stageIn' = processed'
    /\ pc' = AfterStage("color")
    /\ UNCHANGED <<entry, filters, h, w, orig, handled, lastBox, lastRect, calls,
                   faceRaised, num>>

\* lines 225-239: a call raises; nothing in adjust_colors_fast or apply_filters catches it
ColorRaise ==
    /\ pc = "color"
    /\ ColorCallsLibrary(filters)
    /\ pc' = "raised"
    /\ UNCHANGED <<entry, filters, h, w, orig, processed, stageIn, log, handled, lastBox,
                   lastRect, calls, faceRaised, num>>

\* line 91 and lines 243-291
EffectsStage ==
    /\ pc = "effects"
    /\ processed' = apply_effects_fast(processed, filters)
    /\ log' = Logged("effects", processed, processed', FALSE)
    /\ stageIn' = processed'
    /\ pc' = AfterStage("effects")
    /\ UNCHANGED <<entry, filters, h, w, orig, handled, lastBox, lastRect, calls,
                   faceRaised, num>>

\* lines 252-289: a call raises; nothing in apply_effects_fast or apply_filters catches it
EffectsRaise ==
    /\ pc = "effects"
    /\ EffectsCallsLibrary(filters)
    /\ pc' = "raised"
    /\ UNCHANGED <<entry, filters, h, w, orig, processed, stageIn, log, handled, lastBox,
                   lastRect, calls, faceRaised, num>>

InitFace ==
    /\ entry = "enhance_face_opencv"
    /\ pc = "face_detect"
    /\ filters \in FaceFilters
    /\ h \in 1 .. MaxH
    /\ w \in 1 .. MaxW
    /\ orig = FreshFrame(h, w)
    /\ processed = orig
    /\ stageIn = orig
    /\ log = <<>>
    /\ handled = 0
    /\ lastBox = NoBox
    /\ lastRect = NoRect
    /\ calls = <<>>
    /\ faceRaised = FALSE
    /\ num = 0

NextFace ==
    \/ FaceDetect
    \/ FaceDetectRaise
    \/ \E det \in Detections : FaceIterate(det)
    \/ \E det \in Detections : FaceIterateRaise(det)
    \/ FaceBoxRaise
    \/ FaceLoopEnd
    \/ FaceReturn

SpecFace == InitFace /\ [][NextFace]_vars


(***************************************************************************)
(* A call of apply_effects_fast alone.                                     *)
(***************************************************************************)
EffectFilters ==
    {[NoFilters EXCEPT !.blur = n, !.backgroundRemoval = b, !.vintage = v,
                       !.colorFilter = c] :
        n \in -1 .. MaxBlur, b \in BOOLEAN, v \in BOOLEAN, c \in ColorFilters \cup {"none"}}

InitEffects ==
    /\ entry = "apply_effects_fast"
    /\ pc = "effects"
    /\ filters \in EffectFilters
    /\ h \in 1 .. MaxH
    /\ w \in 1 .. MaxW
    /\ orig = FreshFrame(h, w)
    /\ processed = orig
    /\ stageIn = orig
    /\ log = <<>>
    /\ handled = 0
    /\ lastBox = NoBox
    /\ lastRect = NoRect
    /\ calls = <<>>
    /\ faceRaised = FALSE
    /\ num = 0

NextEffects ==
    \/ EffectsStage
    \/ EffectsRaise

SpecEffects == InitEffects /\ [][NextEffects]_vars

(***************************************************************************)
(* A call of apply_filters: the whole pipeline on one frame.               *)
(***************************************************************************)
BackgroundChoices ==
    {<<FALSE, "blur">>} \cup {<<TRUE, m>> : m \in {"blur", "gradient", "beach", "none"}}
FaceChoices == {<<FALSE, 0, 0, 0>>, <<TRUE, 0, 0, 0>>, <<TRUE, 50, 0, 0>>, <<TRUE, 0, 50, 50>>}
ColorChoices == {<<0, 0, 0>>, <<20, 0, 0>>, <<0, 50, 0>>, <<-10, 0, 30>>}
EffectChoices ==
    {<<FALSE, "none", 0>>, <<TRUE, "none", 0>>, <<FALSE, "warm", 2>>, <<FALSE, "bw", 0>>,
     <<TRUE, "vibrant", 1>>}

PipelineFilters ==
    {[backgroundRemoval |-> b[1], backgroundReplacement |-> b[2],
      faceEnhancement |-> f[1], skinSmoothing |-> f[2], eyeBrightening |-> f[3],
      teethWhitening |-> f[4], brightness |-> c[1], contrast |-> c[2], saturation |-> c[3],
      vintage |-> e[1], colorFilter |-> e[2], blur |-> e[3]] :
        b \in BackgroundChoices, f \in FaceChoices, c \in ColorChoices, e \in EffectChoices}

\* Answers of the segmenter: nobody in the frame, a person filling it, a
\* person in the top row only.
PipelineSegResults ==
    {SegRaise, SegNone, SegMask({}), SegMask(Coords(h, w)),
     SegMask({p \in Coords(h, w) : p[1] = 0})}

\* Answers of the detector: a face over the whole frame, one in the top left
\* corner, one past the frame.
PipelineDetections ==
    {[xmin |-> 0, width |-> RelDen, ymin |-> 0, height |-> RelDen],
     [xmin |-> 0, width |-> 1, ymin |-> 0, height |-> 1],
     [xmin |-> RelDen + 1, width |-> 1, ymin |-> 0, height |-> 1]}

Init ==
    /\ entry = "apply_filters"
    /\ pc = "call"
    /\ filters \in PipelineFilters
    /\ h = MaxH
    /\ w = MaxW
    /\ orig = FreshFrame(h, w)
    /\ processed = orig
    /\ stageIn = orig
    /\ log = <<>>
    /\ handled = 0
    /\ lastBox = NoBox
    /\ lastRect = NoRect
    /\ calls = <<>>
    /\ faceRaised = FALSE
    /\ num = 0

Next ==
    \/ ApplyFiltersBegin
    \/ BackgroundSkip
    \/ \E res \in PipelineSegResults : BackgroundStage(res)
    \/ FaceSkip
    \/ FaceEnter
    \/ FaceDetect
    \/ FaceDetectRaise
    \/ \E det \in PipelineDetections : FaceIterate(det)
    \/ \E det \in PipelineDetections : FaceIterateRaise(det)
    \/ FaceBoxRaise
    \/ FaceLoopEnd
    \/ FaceReturn
    \/ ColorStage
    \/ ColorRaise
    \/ EffectsStage
    \/ EffectsRaise

Spec == Init /\ [][Next]_vars

(***************************************************************************)
(* adjust_colors_fast, lines 222-231, on one channel value.  Saturation    *)
(* goes through cv2's HSV conversion and is kept at its neutral 0 here.    *)
(***************************************************************************)
Abs(x) == IF x < 0 THEN -x ELSE x

\* cvRound: to the nearest integer, a tie to the even one; n >= 0, d > 0
RoundHalfEven(n, d) ==
    LET q == n \div d
        r == n % d
    IN  IF 2 * r < d THEN q
        ELSE IF 2 * r > d THEN q + 1
        ELSE IF q % 2 = 0 THEN q ELSE q + 1

\* cv2.convertScaleAbs(src, alpha, beta) on one uint8 value:
\* saturate_cast<uchar>(|src * alpha + beta|), alpha given in hundredths
convertScaleAbs(v, alpha100, beta) ==
    Min(255, RoundHalfEven(Abs(v * alpha100 + 100 * beta), 100))

adjust_colors_channel(v, f) ==
    LET p1 == IF f.brightness # 0 THEN convertScaleAbs(v, 100, f.brightness * 2) ELSE v
    IN  IF f.contrast # 0 THEN convertScaleAbs(p1, 100 + f.contrast, 0) ELSE p1

\* lines 218-241 on the channel value num.v
ChannelColorStage ==
    /\ pc = "color"
    /\ num' = [num EXCEPT !.out = adjust_colors_channel(num.v, filters)]
    /\ pc' = "returned"
    /\ UNCHANGED <<entry, filters, h, w, orig, processed, stageIn, log, handled, lastBox,
                   lastRect, calls, faceRaised>>

\* Contrast values whose alpha = 1 + contrast / 100.0 is exact in binary.
ContrastSamples == {-50, 0, 50}

InitBrightness ==
    /\ entry = "adjust_colors_fast"
    /\ pc = "color"
    /\ filters \in {[NoFilters EXCEPT !.brightness = b, !.contrast = c] :
                       b \in -100 .. 100, c \in ContrastSamples}
    /\ h = 1
    /\ w = 1
    /\ orig = FreshFrame(h, w)
    /\ processed = orig
    /\ stageIn = orig
    /\ log = <<>>
    /\ handled = 0
    /\ lastBox = NoBox
    /\ lastRect = NoRect
    /\ calls = <<>>
    /\ faceRaised = FALSE
    /\ \E v \in 0 .. 255 : num = [v |-> v, out |-> v]

NextBrightness == ChannelColorStage

SpecBrightness == InitBrightness /\ [][NextBrightness]_vars

(***************************************************************************)
(* remove_background_lightweight, lines 95-139, on one colour plane: a     *)
(* frame holds the values 0..255 of channel ch.  The mask, the backgrounds *)
(* and the compositing act on each channel alone.                          *)
(***************************************************************************)
Sky == <<135, 206, 235>>
Sand == <<238, 203, 173>>

\* line 126: the rows of the sky band
BeachSkyRowsCeil(hh) == hh - hh \div 2

BeachSkyRows(hh) == hh \div 2

\* lines 126-128
beach_bg(hh, ww, ch) ==
    [p \in Coords(hh, ww) |-> IF p[1] < BeachSkyRows(hh) THEN Sky[ch] ELSE Sand[ch]]

\* lines 119-121: np.linspace(50, 200, h), times 0.8, 0.9 and 1, cut to uint8
GradientTenths == <<8, 9, 10>>

gradient_bg(hh, ww, ch) ==
    [p \in Coords(hh, ww) |->
        IF hh = 1 THEN (50 * GradientTenths[ch]) \div 10
        ELSE ((50 * (hh - 1) + 150 * p[1]) * GradientTenths[ch]) \div (10 * (hh - 1))]

\* line 132: (frame * 0.3).astype(np.uint8)
darkened(frame) == [p \in DOMAIN frame |-> (3 * frame[p]) \div 10]

\* frame * m + background * (1 - m) with m = k / 255.0, times 255
CompositeNumerator(f, b, k) == f * k + b * (255 - k)

\* .astype(np.uint8) of a value in [0, 255]: the fraction is dropped
CompositeFloor(f, b, k) == CompositeNumerator(f, b, k) \div 255

\* k / 255.0 is not a binary fraction unless k is 0 or 255, so a sum that is a
\* whole number exactly can come out of the float64 arithmetic just below it
\* (3 * (5 / 255.0) + 3 * (1 - 5 / 255.0) is 2.9999999999999996).
FloatInexact(f, b, k) ==
    /\ 0 < k /\ k < 255
    /\ CompositeNumerator(f, b, k) > 0
    /\ CompositeNumerator(f, b, k) % 255 = 0

\* lines 115, 122, 129, 133 on one value; short holds the <<f, b, k>> whose
\* float64 sum falls short of the exact whole number
composite(f, b, k, short) ==
    IF <<f, b, k>> \in short THEN CompositeFloor(f, b, k) - 1 ELSE CompositeFloor(f, b, k)

smoothed_mask(mask, hh, ww) == [p \in Coords(hh, ww) |-> MaskSmooth(mask, p, hh, ww)]

\* lines 112-133: the background of the mode; blurred is what
\* cv2.GaussianBlur(frame, (15, 15), 0) gave
background_plane(frame, replacement_type, ch, blurred, hh, ww) ==
    CASE BackgroundMode(replacement_type) = "blur" -> blurred
      [] BackgroundMode(replacement_type) = "gradient" -> gradient_bg(hh, ww, ch)
      [] BackgroundMode(replacement_type) = "beach" -> beach_bg(hh, ww, ch)
      [] OTHER -> darkened(frame)

remove_background_plane(frame, res, replacement_type, ch, blurred, short, hh, ww) ==
    IF res.kind # "mask" THEN frame
    ELSE LET weight == smoothed_mask(res.mask, hh, ww)
             bg == background_plane(frame, replacement_type, ch, blurred, hh, ww)
         IN  [p \in DOMAIN frame |-> composite(frame[p], bg[p], weight[p], short)]

\* The triples of a compositing whose float64 result is in doubt.
InexactTriples(frame, bg, weight) ==
    {t \in {<<frame[p], bg[p], weight[p]>> : p \in DOMAIN frame} :
        FloatInexact(t[1], t[2], t[3])}

PlaneMin(frame) == CHOOSE v \in {frame[p] : p \in DOMAIN frame} :
                      \A q \in DOMAIN frame : v <= frame[q]
PlaneMax(frame) == CHOOSE v \in {frame[p] : p \in DOMAIN frame} :
                      \A q \in DOMAIN frame : v >= frame[q]

ChannelSamples == {0, 128, 255}

\* Planes of one value, and one with a different value at every pixel.
PlaneSet(hh, ww) ==
    {[p \in Coords(hh, ww) |-> v] : v \in ChannelSamples}
    \cup {[p \in Coords(hh, ww) |-> (40 * p[1] + 90 * p[2] + 7) % 256]}

\* cv2.GaussianBlur(frame, (15, 15), 0) is a weighted mean over a window
\* wider than these frames: a plane of one value comes back as it is, and of
\* any other the outcomes kept are the planes of one value between its least
\* and its greatest.
BlurOutcomes(frame, hh, ww) ==
    {[p \in Coords(hh, ww) |-> v] :
        v \in {PlaneMin(frame), PlaneMax(frame)}
              \cup {c \in ChannelSamples : PlaneMin(frame) <= c /\ c <= PlaneMax(frame)}}

\* Answers of the segmenter: it raises, it has no mask, nobody in the frame,
\* a person filling it, in its top row, in its left column.
PlaneSegResults ==
    {SegRaise, SegNone, SegMask({}), SegMask(Coords(h, w)),
     SegMask({p \in Coords(h, w) : p[1] = 0}), SegMask({p \in Coords(h, w) : p[2] = 0})}

\* lines 95-139: the whole stage on the plane, for one answer of the segmenter
PlaneBackgroundStage(res, blurred, short) ==
    /\ pc = "background"
    /\ processed' = remove_background_plane(processed, res, filters.backgroundReplacement,
                                            num.ch, blurred, short, h, w)
    /\ num' = [num EXCEPT !.seg = res,
                          !.weight = smoothed_mask(res.mask, h, w),
                          !.bg = background_plane(processed, filters.backgroundReplacement,
                                                  num.ch, blurred, h, w)]
    /\ log' = Logged("background", processed, processed', res.kind = "raise")
    /\ stageIn' = processed'
    /\ pc' = "returned"
    /\ UNCHANGED <<entry, filters, h, w, orig, handled, lastBox, lastRect, calls, faceRaised>>

InitBackground ==
    /\ entry = "remove_background_lightweight"
    /\ pc = "background"
    /\ filters \in {[NoFilters EXCEPT !.backgroundRemoval = TRUE,
                                      !.backgroundReplacement = m] :
                       m \in {"blur", "gradient", "beach", "none"}}
    /\ h \in 1 .. MaxH
    /\ w \in 1 .. MaxW
    /\ orig \in PlaneSet(h, w)
    /\ processed = orig
    /\ stageIn = orig
    /\ log = <<>>
    /\ handled = 0
    /\ lastBox = NoBox
    /\ lastRect = NoRect
    /\ calls = <<>>
    /\ faceRaised = FALSE
    /\ \E ch \in 1 .. 3 : num = [ch |-> ch, seg |-> SegNone, weight |-> orig, bg |-> orig]

NextBackground ==
    \E res \in PlaneSegResults :
        \E blurred \in (IF BackgroundMode(filters.backgroundReplacement) = "blur"
                        THEN BlurOutcomes(processed, h, w) ELSE {processed}) :
            \E short \in SUBSET InexactTriples(processed,
                             background_plane(processed, filters.backgroundReplacement,
                                              num.ch, blurred, h, w),
                             smoothed_mask(res.mask, h, w)) :
                PlaneBackgroundStage(res, blurred, short)

SpecBackground == InitBackground /\ [][NextBackground]_vars

(***************************************************************************)
(* The compositing expression of lines 115, 122, 129 and 133 on one value, *)
(* for the foreground, background and smoothed mask values whose float64   *)
(* sum is not in doubt.                                                    *)
(***************************************************************************)
ForegroundSamples == {0, 1, 7, 97, 128, 255}

\* Values the background of a mode can have at a pixel of foreground f: any
\* for the blurred frame, the top row of the gradient, the two bands of the
\* beach, f * 0.3 cut to uint8 for the darkened frame.
BackgroundValues(replacement_type, f) ==
    CASE BackgroundMode(replacement_type) = "blur" -> ChannelSamples
      [] BackgroundMode(replacement_type) = "gradient" ->
            {gradient_bg(1, 1, ch)[<<0, 0>>] : ch \in 1 .. 3}
      [] BackgroundMode(replacement_type) = "beach" ->
            {Sky[ch] : ch \in 1 .. 3} \cup {Sand[ch] : ch \in 1 .. 3}
      [] OTHER -> {(3 * f) \div 10}

CompositeValue ==
    /\ pc = "composite"
    /\ num' = [num EXCEPT !.out = composite(num.f, num.b, num.k, {})]
    /\ pc' = "returned"
    /\ UNCHANGED <<entry, filters, h, w, orig, processed, stageIn, log, handled, lastBox,
                   lastRect, calls, faceRaised>>

InitComposite ==
    /\ entry = "remove_background_lightweight"
    /\ pc = "composite"
    /\ filters \in {[NoFilters EXCEPT !.backgroundRemoval = TRUE,
                                      !.backgroundReplacement = m] :
                       m \in {"blur", "gradient", "beach", "none"}}
    /\ h = 1
    /\ w = 1
    /\ orig = FreshFrame(h, w)
    /\ processed = orig
    /\ stageIn = orig
    /\ log = <<>>
    /\ handled = 0
    /\ lastBox = NoBox
    /\ lastRect = NoRect
    /\ calls = <<>>
    /\ faceRaised = FALSE
    /\ \E f \in ForegroundSamples, k \in 0 .. 255 :
          \E b \in BackgroundValues(filters.backgroundReplacement, f) :
              /\ ~FloatInexact(f, b, k)
              /\ num = [f |-> f, b |-> b, k |-> k, out |-> f]

NextComposite == CompositeValue

SpecComposite == InitComposite /\ [][NextComposite]_vars

(***************************************************************************)
(* The properties.                                                         *)
(***************************************************************************)
StageRank(stage) ==
    CASE stage = "background" -> 1
      [] stage = "face" -> 2
      [] stage = "color" -> 3
      [] stage = "effects" -> 4

\* The rank of the stage the control is in, 5 once apply_filters is over.
RunningRank ==
    CASE pc \in {"call"} -> 0
      [] pc = "background" -> 1
      [] pc \in {"face", "face_detect", "face_loop", "face_ret"} -> 2
      [] pc = "color" -> 3
      [] pc = "effects" -> 4
      [] OTHER -> 5

\* C1: a stage that raises never makes apply_filters raise: no run of
\* apply_filters ends with an exception leaving it.
C1_NoStageFailureEscapes == pc # "raised"

\* C2: a stage that failed part-way hands on the frame it received, pixel for
\* pixel (the face stage also when it fails after an earlier detection's
\* region was written back, the background stage whenever it raises).
C2_FailedStagePassesInputOn ==
    \A i \in DOMAIN log : log[i].raised => log[i].output = log[i].input

\* C3: the stages run in the order background, face, colour grade, effects,
\* each at most once and none before the one before it has returned, and
\* each stage receives the output of the stage that ran before it (the first
\* one a copy of the caller's frame).
C3_StagesInFixedOrder ==
    /\ \A i \in DOMAIN log : StageRank(log[i].stage) <= RunningRank
    /\ \A i \in DOMAIN log : pc \in {"face_detect", "face_loop", "face_ret"}
                                => StageRank(log[i].stage) < 2
    /\ \A i \in 1 .. Len(log) - 1 :
          /\ StageRank(log[i].stage) < StageRank(log[i + 1].stage)
          /\ log[i + 1].input = log[i].output
    /\ Len(log) > 0 => log[1].input = orig
    /\ (pc \in {"face_detect", "face_loop", "face_ret"})
          => stageIn = (IF Len(log) > 0 THEN log[Len(log)].output ELSE orig)
    /\ pc = "returned" =>
          /\ Len(log) >= 2
          /\ log[Len(log)].stage = "effects"
          /\ log[Len(log) - 1].stage = "color"
          /\ processed = log[Len(log)].output

\* All four stages ran and each changed the frame.
C3_Witness ==
    /\ pc = "returned"
    /\ Len(log) = 4
    /\ \A i \in DOMAIN log : log[i].output # log[i].input

\* The pixels of the rectangle x, y, width, height.
RectPixels(rect) ==
    (rect.y .. rect.y + rect.height - 1) \X (rect.x .. rect.x + rect.width - 1)

\* C5: for every frame and every detected box the face stage does not raise,
\* and it writes either nothing (clamped width or height <= 0) or only inside
\* a rectangle with 0 <= x, 0 <= y, x + width <= w and y + height <= h.
C5_FaceWritesInsideFrame ==
    /\ [](/\ pc # "raised"
          /\ Actionable(lastRect) =>
                /\ 0 <= lastRect.x /\ 0 <= lastRect.y
                /\ lastRect.x + lastRect.width <= w
                /\ lastRect.y + lastRect.height <= h)
    /\ [][\A p \in DOMAIN processed :
             processed'[p] # processed[p] =>
                 /\ Actionable(lastRect')
                 /\ p \in RectPixels(lastRect')
                 /\ RectPixels(lastRect') \subseteq Coords(h, w)]_vars

\* An oversize box was cut to the frame and its region written back.
C5_Witness ==
    /\ pc = "returned"
    /\ ~faceRaised
    /\ Actionable(lastRect)
    /\ lastBox.bx + lastBox.bw > w
    /\ lastBox.by + lastBox.bh > h
    /\ processed # orig

\* C9: with the three intensities 0 the face stage returns its input pixel
\* for pixel, whatever the boxes; and an enhancement operation is invoked only
\* when its own intensity is > 0, whatever the other two are.
C9_ZeroIntensityIsIdentity ==
    /\ (filters.skinSmoothing = 0 /\ filters.eyeBrightening = 0
        /\ filters.teethWhitening = 0) => processed = orig
    /\ \A i \in DOMAIN calls :
          /\ calls[i] = "smooth_skin_fast" => filters.skinSmoothing > 0
          /\ calls[i] = "brighten_eyes_fast" => filters.eyeBrightening > 0
          /\ calls[i] = "whiten_teeth_fast" => filters.teethWhitening > 0
    /\ (pc = "face_loop" /\ handled > 0 /\ Actionable(lastRect)) =>
          /\ filters.skinSmoothing > 0 => \E i \in DOMAIN calls : calls[i] = "smooth_skin_fast"
          /\ filters.eyeBrightening > 0 => \E i \in DOMAIN calls : calls[i] = "brighten_eyes_fast"
          /\ filters.teethWhitening > 0 => \E i \in DOMAIN calls : calls[i] = "whiten_teeth_fast"

\* The stage returned after handling an actionable box with all intensities 0.
C9_Witness ==
    /\ pc = "returned"
    /\ ~faceRaised
    /\ handled > 0
    /\ Actionable(lastRect)
    /\ filters.skinSmoothing = 0 /\ filters.eyeBrightening = 0 /\ filters.teethWhitening = 0

\* C10: for a box whose clamped width and height are > 0, the rectangle
\* extracted and written back is the intersection of the detected box with
\* the frame.
C10_RectIsBoxWithinFrame ==
    Actionable(lastRect) =>
        RectPixels(lastRect)
          = ((lastBox.by .. lastBox.by + lastBox.bh - 1)
               \X (lastBox.bx .. lastBox.bx + lastBox.bw - 1)) \cap Coords(h, w)

\* The blur operations recorded on the cells of a frame.
BlurTags(frame) ==
    {t \in UNION {{frame[p][i] : i \in DOMAIN frame[p]} : p \in DOMAIN frame} :
        t.op = "GaussianBlur"}

\* C8: the effects stage blurs if and only if the blur amount is > 0 and
\* backgroundRemoval is false; the kernel size it then uses is
\* max(3, 2 * n + 1), odd and at least 3; with backgroundRemoval true the
\* output is the one a blur amount of 0 gives.
C8_BlurOnlyWithoutRemoval ==
    pc = "returned" =>
        /\ (BlurTags(processed) # {}) <=> (filters.blur > 0 /\ ~filters.backgroundRemoval)
        /\ \A t \in BlurTags(processed) :
              /\ t.k = Max(3, 2 * filters.blur + 1)
              /\ t.k % 2 = 1
              /\ t.k >= 3
              /\ \A p \in DOMAIN processed : \E i \in DOMAIN processed[p] : processed[p][i] = t
        /\ filters.backgroundRemoval =>
              processed = apply_effects_fast(orig, [filters EXCEPT !.blur = 0])

\* The stage blurred with a kernel above the minimum.
C8_Witness ==
    /\ pc = "returned"
    /\ filters.blur >= 2
    /\ ~filters.backgroundRemoval
    /\ BlurTags(processed) # {}

\* C4: with brightness b in [-100, 100] and every other filter neutral, a
\* channel value v becomes v + 2 * b clamped to [0, 255].
C4_BrightnessClamps ==
    (pc = "returned" /\ filters.contrast = 0) =>
        num.out = Max(0, Min(255, num.v + 2 * filters.brightness))

\* C6: every composited channel value is f * m + b * (1 - m), m = k / 255,
\* rounded to the nearest integer and clamped to [0, 255], in every mode.
C6_CompositeRoundsToNearest ==
    pc = "returned" =>
        num.out = Max(0, Min(255, (2 * CompositeNumerator(num.f, num.b, num.k) + 255) \div 510))

\* C7: with a segmentation mask that is 0 everywhere and the mode beach, the
\* output has the sky colour in rows [0, h div 2) and the sand colour in rows
\* [h div 2, h), whatever the input was.
C7_BeachWithEmptyMask ==
    (pc = "returned" /\ filters.backgroundReplacement = "beach"
     /\ num.seg = SegMask({})) =>
        \A p \in DOMAIN processed :
            processed[p] = (IF p[1] < h \div 2 THEN <<135, 206, 235>>[num.ch]
                            ELSE <<238, 203, 173>>[num.ch])

\* A frame of odd height, nobody in it, came out as the two bands.
C7_Witness ==
    /\ pc = "returned"
    /\ filters.backgroundReplacement = "beach"
    /\ num.seg = SegMask({})
    /\ h = 3
    /\ processed # orig

====
